---- MODULE Spec2Model ----
(***************************************************************************)
(* Visit scheduling system (src/app.py): the visits and suppliers tables,  *)
(* the repository functions that write them, and the Streamlit pages that  *)
(* call those functions from a listing loaded earlier in the same run.     *)
(* create_visit, update_visit, init_db and seed_data are also given        *)
(* statement by statement, for the interleavings of two connections.       *)
(*                                                                         *)
(* Text is a sequence of one-character strings, so that str.strip() is     *)
(* computed.  A nullable column holds <<>> (SQL NULL / Python None) or     *)
(* <<v>>.  A date is its proleptic Gregorian ordinal (date.toordinal()).   *)
(***************************************************************************)
EXTENDS Integers, Sequences, FiniteSets, TLC

VARIABLES visits, visitSeq, suppliers, supplierSeq, now, sess, last,
          schema, stores, storeSeq, users, userSeq

vars == <<visits, visitSeq, suppliers, supplierSeq, now, sess, last,
         schema, stores, storeSeq, users, userSeq>>

dbvars == <<visits, visitSeq, suppliers, supplierSeq, now>>

\* the catalogue and the tables seed_data fills
seedvars == <<schema, stores, storeSeq, users, userSeq>>

----------------------------------------------------------------------------
(* Bounds of the model *)

\* highest visits.id the SERIAL may hand out under Spec
MaxVisitId == 2

\* highest visits.id the SERIAL may hand out under SpecWeekly
MaxWeeklyVisitId == 4

\* the database clock stops SpecWeekly after this many committed writes
MaxWeeklyClock == 3

\* highest visits.id the SERIAL may hand out under SpecLoja and SpecNoShow
MaxLojaVisitId == 2

\* the database clock stops SpecLoja and SpecNoShow after this many committed writes
MaxLojaClock == 4

\* highest visits.id the SERIAL may hand out under SpecSchedule
MaxScheduleVisitId == 8

\* the database clock stops Spec after this many committed writes
MaxClock == 3

\* the database clock stops SpecSchedule after this many committed writes
MaxScheduleClock == 2

\* highest visits.id the SERIAL may hand out under SpecListing
MaxListVisitId == 2

\* the database clock stops SpecListing after this many committed writes
MaxListClock == 3

\* calls of create_visit and update_visit SpecCalls lets the sessions make
MaxCalls == 3

\* runs of main() SpecSeed lets each session make
MaxRuns == 2

----------------------------------------------------------------------------
(* Values *)

NULL == <<>>

Some(v) == <<v>>

IsNull(o) == o = <<>>

Val(o) == o[1]

Pendente == "Pendente"

Concluida == "Concluida"

\* the No-show status of the specification (section 4.1)
NaoCompareceu == "Nao Compareceu"

\* CHECK(status IN ('Pendente','Concluída')) of the visits table
StatusCheck(status) == status \in {Pendente, Concluida}

\* len(lojas): the stores seed_data inserts
NumLojas == 15

\* range(1, 4) plus the first insert: four weekly visits
RepeatWeeks == 4

\* date(y, 1, 1).toordinal() - 1: the days of the proleptic Gregorian calendar before year y
DaysBeforeYear(y) == 365 * (y - 1) + ((y - 1) \div 4) - ((y - 1) \div 100) + ((y - 1) \div 400)

\* date(2024, 1, 8).toordinal(), a Monday
BaseDate == DaysBeforeYear(2024) + 8

Dates == {BaseDate, BaseDate + 2}

\* two of the seeded stores, by id
Stores == {1, 2}

StoreLists == {<<>>, <<1>>, <<2>>, <<1, 2>>}

SingleStoreLists == {<<>>, <<1>>}

\* text typed into the Fornecedor field
SupplierInputs == {<<"A">>, <<" ", "a", " ">>, <<>>, <<" ">>}

\* text typed into the Fornecedor field of the dashboard's edit form
UpdateSupplierInputs == {<<"A">>, <<" ", "a", " ">>}

\* text typed into the manager comment field
CommentInputs == {<<>>, <<" ">>, <<"k">>}

\* buyer, segment, warranty and info as typed into the form
Descs ==
  { [buyer |-> "Aldo", segment |-> "PADARIA", warranty |-> "", info |-> ""],
    [buyer |-> "Victor", segment |-> "BEBIDAS", warranty |-> "Sim", info |-> "troca"] }

\* the Agendar form as page_agendar_visita resets it
FormDefaults ==
  [buyer |-> "Aldo", segment |-> "HORTIFRUTIGRANJEIRO", warranty |-> "", info |-> ""]

\* browser sessions: the commercial user's, a second one of the same user, and
\* the user's of store 1
Sessions == {"comercial", "comercial2", "loja"}

\* st.session_state.user of each session, as login_form stores it from seed_data's rows
SessionUser(s) ==
  IF s = "loja"
    THEN [id |-> 2, role |-> "loja", store_id |-> Some(1)]
    ELSE [id |-> 1, role |-> "comercial", store_id |-> NULL]

WEEKDAYS_PT ==
  [n \in 0..6 |->
     CASE n = 0 -> "Segunda-feira"
       [] n = 1 -> "Terca-feira"
       [] n = 2 -> "Quarta-feira"
       [] n = 3 -> "Quinta-feira"
       [] n = 4 -> "Sexta-feira"
       [] n = 5 -> "Sabado"
       [] n = 6 -> "Domingo"]

\* datetime.date.weekday(): (toordinal() + 6) % 7, Monday = 0
Weekday(d) == (d + 6) % 7

\* relativedelta(weeks=i) added to a date
AddWeeks(d, i) == d + 7 * i

----------------------------------------------------------------------------
(* Text *)

IsSpace(c) == c = " "

RECURSIVE LStrip(_)
LStrip(s) == IF s # <<>> /\ IsSpace(Head(s)) THEN LStrip(Tail(s)) ELSE s

RECURSIVE RStrip(_)
RStrip(s) ==
  IF s # <<>> /\ IsSpace(s[Len(s)]) THEN RStrip(SubSeq(s, 1, Len(s) - 1)) ELSE s

\* str.strip()
Strip(s) == RStrip(LStrip(s))

\* truth value of a str or a list
Truthy(s) == Len(s) > 0

----------------------------------------------------------------------------
(* Init: init_db() and seed_data() have run on an empty database *)

\* what the last button press asked for and how the page answered it: "ok" when
\* the repository call returned and the page reported it done, "rejected" when
\* the page warned and made no call
Request(op, id, outcome, before) ==
  [op |-> op, id |-> id, outcome |-> outcome, before |-> before]

NoOp == Request("none", 0, "none", NULL)

Idle == [pc |-> "idle", id |-> 0, status |-> ""]

\* stores_map.get(loja): the id of the store of that name, or None.  A store
\* name is its position in seed_data's list lojas.
StoresMapGet(stores_map, loja) ==
  IF \E i \in DOMAIN stores_map : stores_map[i] = loja
    THEN Some(CHOOSE i \in DOMAIN stores_map : stores_map[i] = loja)
    ELSE NULL

\* the list users of seed_data: the commercial user, then one user per store.
\* An email is the position of its store in lojas, 0 for the commercial user's.
SeedUsers(stores_map) ==
  [k \in 1..(NumLojas + 1) |->
     IF k = 1
       THEN [email |-> 0, role |-> "comercial", store_id |-> NULL]
       ELSE [email |-> k - 1, role |-> "loja",
             store_id |-> StoresMapGet(stores_map, k - 1)]]

\* the rows of a list inserted one after the other, the SERIAL at seq
InsertedRows(rows, seq) == [i \in (seq + 1)..(seq + Len(rows)) |-> rows[i - seq]]

\* the database holds no table yet
Unseeded ==
  /\ schema = FALSE
  /\ stores = <<>>
  /\ storeSeq = 0
  /\ users = <<>>
  /\ userSeq = 0

\* the tables exist and seed_data has filled them
Seeded ==
  /\ schema = TRUE
  /\ stores = [i \in 1..NumLojas |-> i]
  /\ storeSeq = NumLojas
  /\ users = InsertedRows(SeedUsers([i \in 1..NumLojas |-> i]), 0)
  /\ userSeq = NumLojas + 1

Init ==
  /\ visits = <<>>
  /\ visitSeq = 0
  /\ suppliers = <<>>
  /\ supplierSeq = 0
  /\ now = 1
  /\ sess = [s \in Sessions |-> Idle]
  /\ last = NoOp
  /\ Seeded

----------------------------------------------------------------------------
(* Repository functions.  Each is one committed transaction (or, for       *)
(* create_visit and update_visit, ensure_supplier's transaction followed   *)
(* by its own); the clock advances once per call.                          *)

HasSupplier(name) == \E i \in DOMAIN suppliers : suppliers[i] = name

\* the id RETURNING gives: the conflicting row's, or the one the SERIAL hands out
EnsureSupplierId(name) ==
  IF HasSupplier(Strip(name))
    THEN CHOOSE i \in DOMAIN suppliers : suppliers[i] = Strip(name)
    ELSE supplierSeq + 1

\* INSERT .. ON CONFLICT(name) DO UPDATE SET name = EXCLUDED.name; the SERIAL is
\* advanced by the attempted insert whether or not it conflicts
EnsureSupplier(name) ==
  /\ suppliers' = IF HasSupplier(Strip(name))
                    THEN suppliers
                    ELSE suppliers @@ ((supplierSeq + 1) :> Strip(name))
  /\ supplierSeq' = supplierSeq + 1

\* insert_one indexing WEEKDAYS_PT by isoweekday() (Monday = 1) instead of weekday()
InsertOneIsoWeekday(vs, id, vdate, store_id, buyer, supplier_id, segment, warranty, info, created_by) ==
  vs @@ (id :> [store_id |-> store_id,
                visit_date |-> vdate,
                weekday |-> WEEKDAYS_PT[(Weekday(vdate) + 1) % 7],
                buyer |-> buyer,
                supplier_id |-> supplier_id,
                segment |-> segment,
                warranty |-> warranty,
                info |-> info,
                status |-> Pendente,
                created_by |-> created_by,
                created_at |-> now,
                completed_at |-> NULL,
                completed_by |-> NULL,
                manager_comment |-> NULL])

\* the visits table with one more row, as create_visit.insert_one writes it
InsertOne(vs, id, vdate, store_id, buyer, supplier_id, segment, warranty, info, created_by) ==
  vs @@ (id :> [store_id |-> store_id,
                visit_date |-> vdate,
                weekday |-> WEEKDAYS_PT[Weekday(vdate)],
                buyer |-> buyer,
                supplier_id |-> supplier_id,
                segment |-> segment,
                warranty |-> warranty,
                info |-> info,
                status |-> Pendente,
                created_by |-> created_by,
                created_at |-> now,
                completed_at |-> NULL,
                completed_by |-> NULL,
                manager_comment |-> NULL])

\* the repetition loop written range(1, 3): one week short
StoreDatesShort(visit_date, repeat_weekly) ==
  IF repeat_weekly
    THEN [i \in 1..(RepeatWeeks - 1) |-> AddWeeks(visit_date, i - 1)]
    ELSE <<visit_date>>

\* the dates one store gets: visit_date, then visit_date + i weeks for i in range(1, 4)
StoreDates(visit_date, repeat_weekly) ==
  IF repeat_weekly
    THEN [i \in 1..RepeatWeeks |-> AddWeeks(visit_date, i - 1)]
    ELSE <<visit_date>>

\* the (date, store) pairs create_visit inserts, in the order of its loops
RECURSIVE InsertPlan(_, _, _)
InsertPlan(store_ids, visit_date, repeat_weekly) ==
  IF store_ids = <<>>
    THEN <<>>
    ELSE [k \in 1..Len(StoreDates(visit_date, repeat_weekly)) |->
            [vdate |-> StoreDates(visit_date, repeat_weekly)[k],
             store_id |-> Head(store_ids)]]
         \o InsertPlan(Tail(store_ids), visit_date, repeat_weekly)

RECURSIVE InsertAll(_, _, _, _, _, _, _, _, _)
InsertAll(vs, seq, plan, buyer, supplier_id, segment, warranty, info, created_by) ==
  IF plan = <<>>
    THEN vs
    ELSE InsertAll(InsertOne(vs, seq + 1, Head(plan).vdate, Head(plan).store_id,
                             buyer, supplier_id, segment, warranty, info, created_by),
                   seq + 1, Tail(plan),
                   buyer, supplier_id, segment, warranty, info, created_by)

CreateVisit(store_ids, visit_date, buyer, supplier, segment, warranty, info, created_by, repeat_weekly) ==
  /\ EnsureSupplier(supplier)
  /\ visits' = InsertAll(visits, visitSeq,
                         InsertPlan(store_ids, visit_date, repeat_weekly),
                         buyer, EnsureSupplierId(supplier), segment, warranty, info,
                         created_by)
  /\ visitSeq' = visitSeq + Len(InsertPlan(store_ids, visit_date, repeat_weekly))
  /\ now' = now + 1

\* concluir_visit with WHERE created_at = (that of visit_id): the whole scheduling
\* request completed at once
ConcluirVisitSeries(visit_id, user_id, manager_comment) ==
  /\ visits' = [i \in DOMAIN visits |->
                  IF visit_id \in DOMAIN visits
                     /\ visits[i].created_at = visits[visit_id].created_at
                    THEN [visits[i] EXCEPT !.status = Concluida,
                                           !.completed_at = Some(now),
                                           !.completed_by = Some(user_id),
                                           !.manager_comment = manager_comment]
                    ELSE visits[i]]
  /\ now' = now + 1
  /\ UNCHANGED <<visitSeq, suppliers, supplierSeq>>

\* UPDATE visits SET .. WHERE id = visit_id: no row matched is not an error
ConcluirVisit(visit_id, user_id, manager_comment) ==
  /\ visits' = [i \in DOMAIN visits |->
                  IF i = visit_id
                    THEN [visits[i] EXCEPT !.status = Concluida,
                                           !.completed_at = Some(now),
                                           !.completed_by = Some(user_id),
                                           !.manager_comment = manager_comment]
                    ELSE visits[i]]
  /\ now' = now + 1
  /\ UNCHANGED <<visitSeq, suppliers, supplierSeq>>

\* MarkNoShow as the specification gives it, "same contract as Complete but
\* status=NoShow": concluir_visit's UPDATE with the other status.  The new row
\* must pass the table's CHECK; when it does not the statement raises, nothing
\* is committed and the clock does not move.
MarcarNaoCompareceu(visit_id, user_id, manager_comment) ==
  IF visit_id \in DOMAIN visits /\ ~StatusCheck(NaoCompareceu)
    THEN UNCHANGED dbvars
    ELSE /\ visits' = [i \in DOMAIN visits |->
                         IF i = visit_id
                           THEN [visits[i] EXCEPT !.status = NaoCompareceu,
                                                  !.completed_at = Some(now),
                                                  !.completed_by = Some(user_id),
                                                  !.manager_comment = manager_comment]
                           ELSE visits[i]]
         /\ now' = now + 1
         /\ UNCHANGED <<visitSeq, suppliers, supplierSeq>>

\* reabrir_visit without completed_by = NULL
ReabrirVisitKeepsCompletedBy(visit_id, user_id) ==
  /\ visits' = [i \in DOMAIN visits |->
                  IF i = visit_id
                    THEN [visits[i] EXCEPT !.status = Pendente,
                                           !.completed_at = NULL]
                    ELSE visits[i]]
  /\ now' = now + 1
  /\ UNCHANGED <<visitSeq, suppliers, supplierSeq>>

\* reabrir_visit without completed_at = NULL
ReabrirVisitKeepsCompletedAt(visit_id, user_id) ==
  /\ visits' = [i \in DOMAIN visits |->
                  IF i = visit_id
                    THEN [visits[i] EXCEPT !.status = Pendente,
                                           !.completed_by = NULL]
                    ELSE visits[i]]
  /\ now' = now + 1
  /\ UNCHANGED <<visitSeq, suppliers, supplierSeq>>

\* reabrir_visit with manager_comment = NULL in its SET list
ReabrirVisitClearsComment(visit_id, user_id) ==
  /\ visits' = [i \in DOMAIN visits |->
                  IF i = visit_id
                    THEN [visits[i] EXCEPT !.status = Pendente,
                                           !.completed_at = NULL,
                                           !.completed_by = NULL,
                                           !.manager_comment = NULL]
                    ELSE visits[i]]
  /\ now' = now + 1
  /\ UNCHANGED <<visitSeq, suppliers, supplierSeq>>

\* UPDATE visits SET .. WHERE id = visit_id: no row matched is not an error
ReabrirVisit(visit_id, user_id) ==
  /\ visits' = [i \in DOMAIN visits |->
                  IF i = visit_id
                    THEN [visits[i] EXCEPT !.status = Pendente,
                                           !.completed_at = NULL,
                                           !.completed_by = NULL]
                    ELSE visits[i]]
  /\ now' = now + 1
  /\ UNCHANGED <<visitSeq, suppliers, supplierSeq>>

\* update_visit with its WHERE clause left out
UpdateVisitAllRows(visit_id, buyer, supplier, segment, warranty, info) ==
  /\ EnsureSupplier(supplier)
  /\ visits' = [i \in DOMAIN visits |->
                  [visits[i] EXCEPT !.buyer = buyer,
                                    !.supplier_id = EnsureSupplierId(supplier),
                                    !.segment = segment,
                                    !.warranty = warranty,
                                    !.info = info]]
  /\ now' = now + 1
  /\ UNCHANGED visitSeq

\* ensure_supplier's transaction, then UPDATE visits SET .. WHERE id = visit_id
UpdateVisit(visit_id, buyer, supplier, segment, warranty, info) ==
  /\ EnsureSupplier(supplier)
  /\ visits' = [i \in DOMAIN visits |->
                  IF i = visit_id
                    THEN [visits[i] EXCEPT !.buyer = buyer,
                                           !.supplier_id = EnsureSupplierId(supplier),
                                           !.segment = segment,
                                           !.warranty = warranty,
                                           !.info = info]
                    ELSE visits[i]]
  /\ now' = now + 1
  /\ UNCHANGED visitSeq

\* DELETE FROM visits WHERE id = visit_id
DeleteVisit(visit_id) ==
  /\ visits' = [i \in DOMAIN visits \ {visit_id} |-> visits[i]]
  /\ now' = now + 1
  /\ UNCHANGED <<visitSeq, suppliers, supplierSeq>>

\* list_visits without AND v.store_id = %s
ListVisitsAllStores(store_id, status, start, end) ==
  { i \in DOMAIN visits :
      /\ Truthy(status) => \E k \in 1..Len(status) : visits[i].status = status[k]
      /\ visits[i].visit_date >= start
      /\ visits[i].visit_date <= end
      /\ visits[i].supplier_id \in DOMAIN suppliers }

\* list_visits with AND v.visit_date < %s for the end of the range
ListVisitsBeforeEnd(store_id, status, start, end) ==
  { i \in DOMAIN visits :
      /\ (~IsNull(store_id) /\ Val(store_id) # 0) => visits[i].store_id = Val(store_id)
      /\ Truthy(status) => \E k \in 1..Len(status) : visits[i].status = status[k]
      /\ visits[i].visit_date >= start
      /\ visits[i].visit_date < end
      /\ visits[i].supplier_id \in DOMAIN suppliers }

\* the ids of the rows list_visits selects (its JOIN and WHERE clauses); a falsy
\* store_id or status adds no condition
ListVisits(store_id, status, start, end) ==
  { i \in DOMAIN visits :
      /\ (~IsNull(store_id) /\ Val(store_id) # 0) => visits[i].store_id = Val(store_id)
      /\ Truthy(status) => \E k \in 1..Len(status) : visits[i].status = status[k]
      /\ visits[i].visit_date >= start
      /\ visits[i].visit_date <= end
      /\ visits[i].supplier_id \in DOMAIN suppliers }

\* the sequences ORDER BY v.visit_date DESC allows for a set of rows: later dates
\* first, the rows of one date in any order
OrderByVisitDateDesc(ids) ==
  { df \in [1..Cardinality(ids) -> ids] :
      /\ \A a, b \in DOMAIN df : a # b => df[a] # df[b]
      /\ \A a, b \in DOMAIN df :
           a < b => visits[df[a]].visit_date >= visits[df[b]].visit_date }

\* the DataFrames list_visits may return, each the ids of its rows in order
ListVisitsRows(store_id, status, start, end) ==
  OrderByVisitDateDesc(ListVisits(store_id, status, start, end))

----------------------------------------------------------------------------
(* Pages.  Streamlit reruns the page on every interaction: the run lists   *)
(* the visits, renders the buttons of the listed rows, and a pressed       *)
(* button's handler then acts on the row as it was listed.  Another        *)
(* session's run can commit between the listing and the handler.           *)

StatusFilters == {<<Pendente>>, <<Pendente, Concluida>>}

DateWindows == {[start |-> BaseDate, end |-> BaseDate + 27]}

DayFilters == {"Todos", "Segunda-feira"}

\* df = df[df["dia_semana"] == dia_semana] unless "Todos"
DayFilter(ids, dia_semana) ==
  IF dia_semana # "Todos" THEN {i \in ids : visits[i].weekday = dia_semana} ELSE ids

\* the row of the listing the session acts on, or no listing when df is empty
Listed(s, page, ids) ==
  IF ids = {}
    THEN sess' = [sess EXCEPT ![s] = Idle]
    ELSE \E i \in ids :
           sess' = [sess EXCEPT ![s] = [pc |-> page, id |-> i, status |-> visits[i].status]]

Before(id) == IF id \in DOMAIN visits THEN Some(visits[id]) ELSE NULL

\* comentario if comentario.strip() else None
CommentArg(comentario) == IF Truthy(Strip(comentario)) THEN Some(comentario) ELSE NULL

\* the store page calling list_visits without its store_id
LojaListarTodas(s, status, start, end, dia_semana) ==
  /\ SessionUser(s).role = "loja"
  /\ ~IsNull(SessionUser(s).store_id)
  /\ Listed(s, "loja", DayFilter(ListVisits(NULL, status, start, end), dia_semana))
  /\ UNCHANGED <<dbvars, last>>

\* the store page's run: the listing, and the row whose buttons are used
LojaListar(s, status, start, end, dia_semana) ==
  /\ SessionUser(s).role = "loja"
  /\ ~IsNull(SessionUser(s).store_id)
  /\ Listed(s, "loja", DayFilter(ListVisits(SessionUser(s).store_id, status, start, end), dia_semana))
  /\ UNCHANGED <<dbvars, last>>

LojaConcluir(s, comentario) ==
  /\ sess[s].pc = "loja"
  /\ sess[s].status = Pendente
  /\ ConcluirVisit(sess[s].id, SessionUser(s).id, CommentArg(comentario))
  /\ last' = Request("concluir", sess[s].id, "ok", Before(sess[s].id))
  /\ sess' = [sess EXCEPT ![s] = Idle]

LojaReabrir(s) ==
  /\ sess[s].pc = "loja"
  /\ sess[s].status # Pendente
  /\ ReabrirVisit(sess[s].id, SessionUser(s).id)
  /\ last' = Request("reabrir", sess[s].id, "ok", Before(sess[s].id))
  /\ sess' = [sess EXCEPT ![s] = Idle]

\* a No-show button next to Concluir on the store page; the exception of a
\* refused UPDATE ends the run
LojaNaoCompareceu(s, comentario) ==
  /\ sess[s].pc = "loja"
  /\ sess[s].status = Pendente
  /\ MarcarNaoCompareceu(sess[s].id, SessionUser(s).id, CommentArg(comentario))
  /\ last' = Request("naocompareceu", sess[s].id,
                     IF sess[s].id \in DOMAIN visits /\ ~StatusCheck(NaoCompareceu)
                       THEN "error" ELSE "ok",
                     Before(sess[s].id))
  /\ sess' = [sess EXCEPT ![s] = Idle]

DashboardListar(s, loja_id, status, start, end, dia_semana) ==
  /\ SessionUser(s).role = "comercial"
  /\ Listed(s, "dashboard", DayFilter(ListVisits(loja_id, status, start, end), dia_semana))
  /\ UNCHANGED <<dbvars, last>>

DashboardSalvar(s, comprador, fornecedor, segmento, garantia, info) ==
  /\ sess[s].pc = "dashboard"
  /\ UpdateVisit(sess[s].id, comprador, fornecedor, segmento, garantia, info)
  /\ last' = Request("update", sess[s].id, "ok", Before(sess[s].id))
  /\ sess' = [sess EXCEPT ![s] = Idle]

DashboardExcluir(s) ==
  /\ sess[s].pc = "dashboard"
  /\ DeleteVisit(sess[s].id)
  /\ last' = Request("delete", sess[s].id, "ok", Before(sess[s].id))
  /\ sess' = [sess EXCEPT ![s] = Idle]

DashboardReabrir(s) ==
  /\ sess[s].pc = "dashboard"
  /\ sess[s].status = Concluida
  /\ ReabrirVisit(sess[s].id, SessionUser(s).id)
  /\ last' = Request("reabrir", sess[s].id, "ok", Before(sess[s].id))
  /\ sess' = [sess EXCEPT ![s] = Idle]

DashboardConcluir(s, comentario) ==
  /\ sess[s].pc = "dashboard"
  /\ sess[s].status = Pendente
  /\ ConcluirVisit(sess[s].id, SessionUser(s).id, CommentArg(comentario))
  /\ last' = Request("concluir", sess[s].id, "ok", Before(sess[s].id))
  /\ sess' = [sess EXCEPT ![s] = Idle]

\* df[df["dia_semana"] == dia_semana] unless "Todos", on the rows in order
DayFilterRows(df, dia_semana) ==
  IF dia_semana # "Todos"
    THEN SelectSeq(df, LAMBDA i : visits[i].weekday = dia_semana)
    ELSE df

\* the dashboard's run up to the table it shows: the filters as chosen, df as
\* list_visits returned it and the day filter left it
DashboardTabela(s, loja_id, status, start, end, dia_semana) ==
  /\ SessionUser(s).role = "comercial"
  /\ \E df \in ListVisitsRows(loja_id, status, start, end) :
       sess' = [sess EXCEPT ![s] =
                  [pc |-> "tabela", id |-> 0, status |-> "",
                   q |-> [loja_id |-> loja_id, status |-> status, start |-> start,
                          end |-> end, dia_semana |-> dia_semana],
                   df |-> DayFilterRows(df, dia_semana)]]
  /\ UNCHANGED <<dbvars, last>>

\* the Agendar form, submitted
PageAgendarVisita(s, lojas_escolhidas, dt, comprador, fornecedor, segmento, garantia, info, repetir) ==
  /\ SessionUser(s).role = "comercial"
  /\ IF ~Truthy(lojas_escolhidas) \/ ~Truthy(fornecedor)
       THEN /\ last' = Request("agendar", 0, "rejected", NULL)
            /\ UNCHANGED <<dbvars, sess>>
       ELSE /\ CreateVisit(lojas_escolhidas, dt, comprador, fornecedor, segmento,
                           garantia, info, SessionUser(s).id, repetir)
            /\ last' = Request("agendar", 0, "ok", NULL)
            /\ UNCHANGED sess

----------------------------------------------------------------------------
(* The statements of create_visit and update_visit one by one.  Each       *)
(* function opens its own connection; what a connection has written is     *)
(* seen by the others once it commits.  A session in a call holds the call *)
(* (fn and arguments), the supplier name and id of ensure_supplier, and    *)
(* the visits rows its open transaction has inserted.                      *)

\* the check-then-insert of a table without the ON CONFLICT(name) arbiter: an
\* INSERT another connection has not committed yet is not waited for
SupplierHeldNever(s, name) == FALSE

\* another connection has inserted or locked the suppliers row of that name and
\* not committed: INSERT .. ON CONFLICT(name) waits for it
SupplierHeld(s, name) ==
  \E o \in Sessions \ {s} : sess[o].pc = "ensure_supplier" /\ sess[o].name = name

\* ensure_supplier's cur.execute: the row is inserted, or the committed row of
\* that name is locked and its id returned
EnsureSupplierExecute(s, call, supplier) ==
  /\ sess[s].pc = "idle"
  /\ ~SupplierHeld(s, Strip(supplier))
  /\ supplierSeq' = supplierSeq + 1
  /\ sess' = [sess EXCEPT ![s] =
                [pc |-> "ensure_supplier", id |-> 0, status |-> "", call |-> call,
                 name |-> Strip(supplier),
                 supplier_id |-> EnsureSupplierId(supplier),
                 inserted |-> ~HasSupplier(Strip(supplier))]]
  /\ UNCHANGED <<visits, visitSeq, suppliers, now, last>>

\* ensure_supplier's conn.commit(); the caller opens its own connection next
EnsureSupplierCommit(s) ==
  /\ sess[s].pc = "ensure_supplier"
  /\ suppliers' = IF sess[s].inserted
                    THEN suppliers @@ (sess[s].supplier_id :> sess[s].name)
                    ELSE suppliers
  /\ sess' = [sess EXCEPT ![s] =
                [pc |-> sess[s].call.fn, id |-> 0, status |-> "", call |-> sess[s].call,
                 name |-> sess[s].name, supplier_id |-> sess[s].supplier_id,
                 plan |-> IF sess[s].call.fn = "create_visit"
                            THEN InsertPlan(sess[s].call.store_ids, sess[s].call.visit_date,
                                            sess[s].call.repeat_weekly)
                            ELSE <<>>,
                 rows |-> <<>>]]
  /\ UNCHANGED <<visits, visitSeq, supplierSeq, now, last>>

\* create_visit committing after each insert_one
CreateVisitInsertAutocommit(s) ==
  /\ sess[s].pc = "create_visit"
  /\ sess[s].plan # <<>>
  /\ visitSeq' = visitSeq + 1
  /\ IF Head(sess[s].plan).store_id \in DOMAIN stores
       THEN /\ visits' = InsertOne(visits, visitSeq + 1, Head(sess[s].plan).vdate,
                                   Head(sess[s].plan).store_id, sess[s].call.buyer,
                                   sess[s].supplier_id, sess[s].call.segment,
                                   sess[s].call.warranty, sess[s].call.info,
                                   sess[s].call.created_by)
            /\ sess' = [sess EXCEPT ![s].plan = Tail(sess[s].plan)]
            /\ UNCHANGED last
       ELSE /\ sess' = [sess EXCEPT ![s] = Idle]
            /\ last' = Request("agendar", 0, "error", NULL)
            /\ UNCHANGED visits
  /\ UNCHANGED <<suppliers, supplierSeq, now>>

\* one insert_one of create_visit's loops, in the open transaction.  A
\* store_id that is no store's id violates the foreign key: the exception
\* leaves create_visit before conn.commit() and the transaction is dropped.
CreateVisitInsert(s) ==
  /\ sess[s].pc = "create_visit"
  /\ sess[s].plan # <<>>
  /\ visitSeq' = visitSeq + 1
  /\ IF Head(sess[s].plan).store_id \in DOMAIN stores
       THEN /\ sess' = [sess EXCEPT
                          ![s].rows = InsertOne(sess[s].rows, visitSeq + 1,
                                                Head(sess[s].plan).vdate,
                                                Head(sess[s].plan).store_id,
                                                sess[s].call.buyer, sess[s].supplier_id,
                                                sess[s].call.segment, sess[s].call.warranty,
                                                sess[s].call.info, sess[s].call.created_by),
                          ![s].plan = Tail(sess[s].plan)]
            /\ UNCHANGED last
       ELSE /\ sess' = [sess EXCEPT ![s] = Idle]
            /\ last' = Request("agendar", 0, "error", NULL)
  /\ UNCHANGED <<visits, suppliers, supplierSeq, now>>

\* create_visit's conn.commit() after its loops
CreateVisitCommit(s) ==
  /\ sess[s].pc = "create_visit"
  /\ sess[s].plan = <<>>
  /\ visits' = visits @@ sess[s].rows
  /\ now' = now + 1
  /\ sess' = [sess EXCEPT ![s] = Idle]
  /\ last' = Request("agendar", 0, "ok", NULL)
  /\ UNCHANGED <<visitSeq, suppliers, supplierSeq>>

\* update_visit's UPDATE and conn.commit()
UpdateVisitCommit(s) ==
  /\ sess[s].pc = "update_visit"
  /\ visits' = [i \in DOMAIN visits |->
                  IF i = sess[s].call.visit_id
                    THEN [visits[i] EXCEPT !.buyer = sess[s].call.buyer,
                                           !.supplier_id = sess[s].supplier_id,
                                           !.segment = sess[s].call.segment,
                                           !.warranty = sess[s].call.warranty,
                                           !.info = sess[s].call.info]
                    ELSE visits[i]]
  /\ now' = now + 1
  /\ sess' = [sess EXCEPT ![s] = Idle]
  /\ last' = Request("update", sess[s].call.visit_id, "ok", Before(sess[s].call.visit_id))
  /\ UNCHANGED <<visitSeq, suppliers, supplierSeq>>

\* create_visit called, up to the first statement of ensure_supplier
CreateVisitCall(s, store_ids, visit_date, buyer, supplier, segment, warranty, info, created_by, repeat_weekly) ==
  EnsureSupplierExecute(s, [fn |-> "create_visit", store_ids |-> store_ids,
                            visit_date |-> visit_date, buyer |-> buyer, segment |-> segment,
                            warranty |-> warranty, info |-> info, created_by |-> created_by,
                            repeat_weekly |-> repeat_weekly],
                        supplier)

\* update_visit called, up to the first statement of ensure_supplier
UpdateVisitCall(s, visit_id, buyer, supplier, segment, warranty, info) ==
  EnsureSupplierExecute(s, [fn |-> "update_visit", visit_id |-> visit_id, buyer |-> buyer,
                            segment |-> segment, warranty |-> warranty, info |-> info],
                        supplier)

----------------------------------------------------------------------------
(* main() up to the login form: init_db() and seed_data(), run by every    *)
(* session on every rerun, statement by statement.  Each function is one   *)
(* transaction on its own connection (READ COMMITTED: a statement sees     *)
(* what was committed before it began, and its own transaction's writes).  *)
(* A session in a run holds what its open transaction has written.         *)

Running(s, pc, fields) ==
  [sess EXCEPT ![s] = [pc |-> pc, id |-> 0, status |-> "", runs |-> sess[s].runs] @@ fields]

\* the run is over: the page is drawn, or the exception is shown
RunEnds(s, outcome) ==
  /\ sess' = [sess EXCEPT ![s] = [pc |-> "idle", id |-> 0, status |-> "",
                                  runs |-> sess[s].runs + 1]]
  /\ last' = Request("main", 0, outcome, NULL)

\* another connection has created the tables and not committed
SchemaHeld(s) ==
  \E o \in Sessions \ {s} : sess[o].pc = "init_db" /\ sess[o].created

\* init_db's CREATE TABLE IF NOT EXISTS statements.  Tables that exist are
\* left alone.  Tables another connection has created and not committed are
\* not seen by IF NOT EXISTS; the statement goes on to create them and waits
\* on the other connection's catalogue rows.
InitDbExecute(s) ==
  /\ sess[s].pc = "idle"
  /\ sess' = IF schema
               THEN Running(s, "init_db", [created |-> FALSE])
               ELSE IF SchemaHeld(s)
                      THEN Running(s, "init_wait", <<>>)
                      ELSE Running(s, "init_db", [created |-> TRUE])
  /\ UNCHANGED <<dbvars, last, seedvars>>

\* the connection waited for has committed: the catalogue's unique index
\* refuses the second table of the name, and init_db raises
InitDbRaise(s) ==
  /\ sess[s].pc = "init_wait"
  /\ schema
  /\ RunEnds(s, "error")
  /\ UNCHANGED <<dbvars, seedvars>>

\* init_db's conn.commit()
InitDbCommit(s) ==
  /\ sess[s].pc = "init_db"
  /\ schema' = (schema \/ sess[s].created)
  /\ sess' = Running(s, "seed_data", <<>>)
  /\ UNCHANGED <<dbvars, last, stores, storeSeq, users, userSeq>>

\* SELECT COUNT(*) FROM stores, and the branch on it
SeedCountStores(s) ==
  /\ sess[s].pc = "seed_data"
  /\ sess' = Running(s, IF Cardinality(DOMAIN stores) = 0 THEN "seed_stores" ELSE "seed_map",
                      [k |-> 1, new_stores |-> <<>>])
  /\ UNCHANGED <<dbvars, last, seedvars>>

\* another connection has inserted the store of that name and not committed
StoreHeld(s, loja) ==
  \E o \in Sessions \ {s} :
    /\ sess[o].pc \in {"seed_stores", "seed_map", "seed_users", "seed_commit"}
    /\ \E i \in DOMAIN sess[o].new_stores : sess[o].new_stores[i] = loja

\* INSERT INTO stores(name) VALUES(loja) ON CONFLICT DO NOTHING, for the next
\* loja of the list: it waits for an uncommitted row of the name, and inserts
\* nothing when a committed one exists
SeedInsertStore(s) ==
  /\ sess[s].pc = "seed_stores"
  /\ ~StoreHeld(s, sess[s].k)
  /\ storeSeq' = storeSeq + 1
  /\ sess' = Running(s, IF sess[s].k = NumLojas THEN "seed_map" ELSE "seed_stores",
                      [k |-> sess[s].k + 1,
                       new_stores |->
                         IF \E i \in DOMAIN stores : stores[i] = sess[s].k
                           THEN sess[s].new_stores
                           ELSE sess[s].new_stores @@ ((storeSeq + 1) :> sess[s].k)])
  /\ UNCHANGED <<dbvars, last, schema, stores, users, userSeq>>

\* SELECT id, name FROM stores into stores_map; SELECT COUNT(*) FROM users, and
\* the branch on it
SeedCountUsers(s) ==
  /\ sess[s].pc = "seed_map"
  /\ sess' = Running(s, IF Cardinality(DOMAIN users) = 0 THEN "seed_users" ELSE "seed_commit",
                      [new_stores |-> sess[s].new_stores,
                       stores_map |-> stores @@ sess[s].new_stores,
                       new_users |-> <<>>])
  /\ UNCHANGED <<dbvars, last, seedvars>>

\* another connection has inserted users and not committed
UsersHeld(s) ==
  \E o \in Sessions \ {s} :
    sess[o].pc \in {"seed_users", "seed_commit"} /\ sess[o].new_users # <<>>

\* cur.executemany(INSERT INTO users ..): it waits for uncommitted rows of its
\* emails; a committed row of one of them violates UNIQUE(email), the
\* exception leaves seed_data and its transaction is dropped
SeedInsertUsers(s) ==
  /\ sess[s].pc = "seed_users"
  /\ ~UsersHeld(s)
  /\ IF \E i \in DOMAIN users :
          \E k \in 1..(NumLojas + 1) : users[i].email = SeedUsers(sess[s].stores_map)[k].email
       THEN /\ RunEnds(s, "error")
            /\ userSeq' = userSeq + 1
       ELSE /\ sess' = Running(s, "seed_commit",
                               [new_stores |-> sess[s].new_stores,
                                new_users |-> InsertedRows(SeedUsers(sess[s].stores_map),
                                                           userSeq)])
            /\ userSeq' = userSeq + NumLojas + 1
            /\ UNCHANGED last
  /\ UNCHANGED <<dbvars, schema, stores, storeSeq, users>>

\* seed_data's conn.commit(); main() goes on to the login form or the page
SeedCommit(s) ==
  /\ sess[s].pc = "seed_commit"
  /\ stores' = stores @@ sess[s].new_stores
  /\ users' = users @@ sess[s].new_users
  /\ RunEnds(s, "ok")
  /\ UNCHANGED <<dbvars, schema, storeSeq, userSeq>>

----------------------------------------------------------------------------
(* Specifications.  The forms' inputs are drawn from the sets given, the    *)
(* SERIAL of visits.id is capped at maxId, and the clock stops the model    *)
(* after maxClock committed writes.                                         *)

\* rows one submitted form would insert
RowsOf(lojas, repetir) == Len(lojas) * (IF repetir THEN RepeatWeeks ELSE 1)

\* the Agendar form submitted with a supplier name out of fornecedores
AgendarFornecedor(who, lists, fornecedores, repeats, maxId, maxClock) ==
  \E s \in who, lojas \in lists, dt \in Dates, f \in fornecedores, r \in repeats :
    /\ now <= maxClock
    /\ visitSeq + RowsOf(lojas, r) <= maxId
    /\ PageAgendarVisita(s, lojas, dt, FormDefaults.buyer, f, FormDefaults.segment,
                         FormDefaults.warranty, FormDefaults.info, r)
    /\ UNCHANGED seedvars

Agendar(who, lists, repeats, maxId, maxClock) ==
  AgendarFornecedor(who, lists, SupplierInputs, repeats, maxId, maxClock)

ListarLoja(who) ==
  \E s \in who, st \in StatusFilters, w \in DateWindows, dia \in DayFilters :
    LojaListar(s, st, w.start, w.end, dia) /\ UNCHANGED seedvars

ListarDashboard(who) ==
  \E s \in who, l \in {NULL, Some(1)}, st \in StatusFilters,
     w \in DateWindows, dia \in DayFilters :
    DashboardListar(s, l, st, w.start, w.end, dia) /\ UNCHANGED seedvars

ConcluirLoja(who, maxClock) ==
  \E s \in who, c \in CommentInputs :
    now <= maxClock /\ LojaConcluir(s, c) /\ UNCHANGED seedvars

ReabrirLoja(who, maxClock) ==
  \E s \in who : now <= maxClock /\ LojaReabrir(s) /\ UNCHANGED seedvars

Salvar(who, maxClock) ==
  \E s \in who, d \in Descs, f \in UpdateSupplierInputs :
    /\ now <= maxClock
    /\ DashboardSalvar(s, d.buyer, f, d.segment, d.warranty, d.info)
    /\ UNCHANGED seedvars

Excluir(who, maxClock) ==
  \E s \in who : now <= maxClock /\ DashboardExcluir(s) /\ UNCHANGED seedvars

ReabrirDashboard(who, maxClock) ==
  \E s \in who : now <= maxClock /\ DashboardReabrir(s) /\ UNCHANGED seedvars

ConcluirDashboard(who, maxClock) ==
  \E s \in who, c \in CommentInputs :
    now <= maxClock /\ DashboardConcluir(s, c) /\ UNCHANGED seedvars

\* the store users' page
Loja(who, maxClock) ==
  \/ ListarLoja(who)
  \/ ConcluirLoja(who, maxClock)
  \/ ReabrirLoja(who, maxClock)

\* the commercial users' dashboard
Dashboard(who, maxClock) ==
  \/ ListarDashboard(who)
  \/ Salvar(who, maxClock)
  \/ Excluir(who, maxClock)
  \/ ReabrirDashboard(who, maxClock)
  \/ ConcluirDashboard(who, maxClock)

\* single visits, and everything a commercial session and a store session do
\* with them
Next ==
  \/ Agendar({"comercial"}, SingleStoreLists, {FALSE}, MaxVisitId, MaxClock)
  \/ Loja({"loja"}, MaxClock)
  \/ Dashboard({"comercial"}, MaxClock)

Spec == Init /\ [][Next]_vars

\* the Agendar form alone, with every store list, repeated weekly or not
NextSchedule ==
  Agendar({"comercial"}, StoreLists, BOOLEAN, MaxScheduleVisitId, MaxScheduleClock)

SpecSchedule == Init /\ [][NextSchedule]_vars

\* one store's weekly visits and everything a commercial session does with them
NextWeekly ==
  \/ Agendar({"comercial"}, {<<1>>}, {TRUE}, MaxWeeklyVisitId, MaxWeeklyClock)
  \/ Dashboard({"comercial"}, MaxWeeklyClock)

SpecWeekly == Init /\ [][NextWeekly]_vars

\* one store's single visits and everything the store session does with them
NextLoja ==
  \/ Agendar({"comercial"}, {<<1>>}, {FALSE}, MaxLojaVisitId, MaxLojaClock)
  \/ Loja({"loja"}, MaxLojaClock)

SpecLoja == Init /\ [][NextLoja]_vars

\* single visits and two commercial sessions on the dashboard
NextDashboards ==
  \/ Agendar({"comercial"}, SingleStoreLists, {FALSE}, MaxVisitId, MaxClock)
  \/ Dashboard({"comercial", "comercial2"}, MaxClock)

SpecDashboards == Init /\ [][NextDashboards]_vars

\* the filters of the dashboard's table: any store or one, any status or the
\* completed, a range that holds both dates, an inverted one, and each date alone
TabelaStores == {NULL, Some(1), Some(2)}

TabelaStatus == {<<>>, <<Concluida>>}

TabelaWindows ==
  { [start |-> BaseDate, end |-> BaseDate + 2],
    [start |-> BaseDate + 2, end |-> BaseDate],
    [start |-> BaseDate, end |-> BaseDate],
    [start |-> BaseDate + 2, end |-> BaseDate + 2] }

\* the table with every day of the week shown
Tabela(who) ==
  \E s \in who, l \in TabelaStores, st \in TabelaStatus, w \in TabelaWindows :
    DashboardTabela(s, l, st, w.start, w.end, "Todos") /\ UNCHANGED seedvars

\* single visits of two stores, the dashboard's table and the store page
NextListing ==
  \/ AgendarFornecedor({"comercial"}, StoreLists, {<<"A">>}, {FALSE},
                       MaxListVisitId, MaxListClock)
  \/ Loja({"loja"}, MaxListClock)
  \/ Tabela({"comercial"})

SpecListing == Init /\ [][NextListing]_vars

NaoCompareceuLoja(who, maxClock) ==
  \E s \in who, c \in CommentInputs :
    now <= maxClock /\ LojaNaoCompareceu(s, c) /\ UNCHANGED seedvars

\* one store's single visits, the store page, and the No-show button
NextNoShow ==
  \/ Agendar({"comercial"}, {<<1>>}, {FALSE}, MaxLojaVisitId, MaxLojaClock)
  \/ Loja({"loja"}, MaxLojaClock)
  \/ NaoCompareceuLoja({"loja"}, MaxLojaClock)

SpecNoShow == Init /\ [][NextNoShow]_vars

\* store lists create_visit is called with: one store, two, and one that
\* names an id no store has
CallStoreLists == {<<1>>, <<1, 2>>, <<1, NumLojas + 1>>}

ChamarCreateVisit(who) ==
  \E s \in who, lojas \in CallStoreLists, f \in UpdateSupplierInputs :
    /\ supplierSeq < MaxCalls
    /\ CreateVisitCall(s, lojas, BaseDate, FormDefaults.buyer, f, FormDefaults.segment,
                       FormDefaults.warranty, FormDefaults.info, SessionUser(s).id, FALSE)
    /\ UNCHANGED seedvars

ChamarUpdateVisit(who) ==
  \E s \in who, id \in DOMAIN visits, d \in Descs, f \in UpdateSupplierInputs :
    /\ supplierSeq < MaxCalls
    /\ UpdateVisitCall(s, id, d.buyer, f, d.segment, d.warranty, d.info)
    /\ UNCHANGED seedvars

CommitSupplier(who) == \E s \in who : EnsureSupplierCommit(s) /\ UNCHANGED seedvars

Inserir(who) == \E s \in who : CreateVisitInsert(s) /\ UNCHANGED seedvars

CommitCreateVisit(who) == \E s \in who : CreateVisitCommit(s) /\ UNCHANGED seedvars

CommitUpdateVisit(who) == \E s \in who : UpdateVisitCommit(s) /\ UNCHANGED seedvars

\* two commercial sessions in create_visit and update_visit, statement by
\* statement
NextCalls ==
  \/ ChamarCreateVisit({"comercial", "comercial2"})
  \/ ChamarUpdateVisit({"comercial", "comercial2"})
  \/ CommitSupplier({"comercial", "comercial2"})
  \/ Inserir({"comercial", "comercial2"})
  \/ CommitCreateVisit({"comercial", "comercial2"})
  \/ CommitUpdateVisit({"comercial", "comercial2"})

SpecCalls == Init /\ [][NextCalls]_vars

\* a database with no table yet, and no run of main() made
InitSeed ==
  /\ visits = <<>>
  /\ visitSeq = 0
  /\ suppliers = <<>>
  /\ supplierSeq = 0
  /\ now = 1
  /\ sess = [s \in Sessions |-> [pc |-> "idle", id |-> 0, status |-> "", runs |-> 0]]
  /\ last = NoOp
  /\ Unseeded

CriarTabelas(who) == \E s \in who : sess[s].runs < MaxRuns /\ InitDbExecute(s)

FalharInitDb(who) == \E s \in who : InitDbRaise(s)

CommitInitDb(who) == \E s \in who : InitDbCommit(s)

ContarLojas(who) == \E s \in who : SeedCountStores(s)

InserirLoja(who) == \E s \in who : SeedInsertStore(s)

ContarUsuarios(who) == \E s \in who : SeedCountUsers(s)

InserirUsuarios(who) == \E s \in who : SeedInsertUsers(s)

CommitSeed(who) == \E s \in who : SeedCommit(s)

\* two sessions opening the application on a new database, and rerunning
NextSeed ==
  \/ CriarTabelas({"comercial", "comercial2"})
  \/ FalharInitDb({"comercial", "comercial2"})
  \/ CommitInitDb({"comercial", "comercial2"})
  \/ ContarLojas({"comercial", "comercial2"})
  \/ InserirLoja({"comercial", "comercial2"})
  \/ ContarUsuarios({"comercial", "comercial2"})
  \/ InserirUsuarios({"comercial", "comercial2"})
  \/ CommitSeed({"comercial", "comercial2"})

SpecSeed == InitSeed /\ [][NextSeed]_vars

----------------------------------------------------------------------------
(* Claims *)

\* the visit a session's buttons act on
Target(s) == sess[s].id

\* the session presses a Concluir button, with or without a comment typed
Concluir(s, c) == LojaConcluir(s, c) \/ DashboardConcluir(s, c)

\* the session presses a Reabrir button
Reabrir(s) == LojaReabrir(s) \/ DashboardReabrir(s)

\* the day of the week of a date, counted from 2024-01-08, a Monday
DayOfWeek(d) == WEEKDAYS_PT[(d - BaseDate) % 7]

\* the rows a step adds to the visits table
NewRows == DOMAIN visits' \ DOMAIN visits

\* C1: create_visit called with N store ids adds exactly N rows when
\* repeat_weekly is false and 4N when it is true; each store gets the dates
\* date, date+7, date+14, date+21 (or date alone), every new row is Pendente,
\* and the rows that existed are left alone.
C1_ScheduleCreatesRows ==
  [][\A lojas \in StoreLists \ {<<>>}, dt \in Dates, f \in SupplierInputs,
        r \in BOOLEAN, u \in {1, 2} :
       CreateVisit(lojas, dt, FormDefaults.buyer, f, FormDefaults.segment,
                   FormDefaults.warranty, FormDefaults.info, u, r)
       => /\ Cardinality(NewRows) = Len(lojas) * (IF r THEN 4 ELSE 1)
          /\ \A i \in DOMAIN visits : visits'[i] = visits[i]
          /\ \A i \in NewRows : visits'[i].status = Pendente
          /\ \A k \in 1..Len(lojas) :
               /\ {visits'[i].visit_date : i \in {j \in NewRows : visits'[j].store_id = lojas[k]}}
                    = (IF r THEN {dt, dt + 7, dt + 14, dt + 21} ELSE {dt})
               /\ Cardinality({j \in NewRows : visits'[j].store_id = lojas[k]})
                    = (IF r THEN 4 ELSE 1)
     ]_vars

\* two stores scheduled weekly from 2024-01-08: eight Pendente rows, store 1's on
\* the four Mondays
C1_Witness ==
  /\ last.op = "agendar" /\ last.outcome = "ok"
  /\ Cardinality(DOMAIN visits) = 8
  /\ {visits[i].visit_date : i \in {j \in DOMAIN visits : visits[j].store_id = 1}}
       = {BaseDate, BaseDate + 7, BaseDate + 14, BaseDate + 21}
  /\ \A i \in DOMAIN visits : visits[i].status = Pendente

\* C2: in every reachable state every stored visit's weekday label is the day
\* of the week of its own visit_date, the weekly repetitions included.
C2_WeekdayMatchesDate ==
  \A i \in DOMAIN visits : visits[i].weekday = DayOfWeek(visits[i].visit_date)

\* the fourth weekly visit of a Wednesday schedule, after an update of it
C2_Witness ==
  /\ last.op = "update"
  /\ last.id \in DOMAIN visits
  /\ visits[last.id].visit_date = BaseDate + 23
  /\ visits[last.id].weekday = "Quarta-feira"

\* C3: in every reachable state completed_at and completed_by of a visit are
\* both set or both null, and a Pendente visit has both null.
C3_CompletedPair ==
  \A i \in DOMAIN visits :
    /\ IsNull(visits[i].completed_at) <=> IsNull(visits[i].completed_by)
    /\ visits[i].status = Pendente =>
         IsNull(visits[i].completed_at) /\ IsNull(visits[i].completed_by)

\* a completed visit, both columns set, reopened: both null again
C3_Witness ==
  /\ last.op = "reabrir"
  /\ last.id \in DOMAIN visits
  /\ ~IsNull(last.before)
  /\ ~IsNull(Val(last.before).completed_at) /\ ~IsNull(Val(last.before).completed_by)
  /\ visits[last.id].status = Pendente
  /\ IsNull(visits[last.id].completed_at) /\ IsNull(visits[last.id].completed_by)

\* C4: a Pendente visit completed and then reopened is Pendente again with
\* completed_at and completed_by null, and its store_id, visit_date, weekday,
\* buyer, supplier, segment, warranty and info are what they were before the
\* completion.  (last.before is the row as the completion found it.)
C4_CompleteThenReopen ==
  [][\A s \in Sessions :
       ( /\ Reabrir(s)
         /\ Target(s) \in DOMAIN visits
         /\ last.op = "concluir" /\ last.id = Target(s)
         /\ ~IsNull(last.before)
         /\ Val(last.before).status = Pendente )
       => /\ Target(s) \in DOMAIN visits'
          /\ visits'[Target(s)].status = Pendente
          /\ IsNull(visits'[Target(s)].completed_at)
          /\ IsNull(visits'[Target(s)].completed_by)
          /\ visits'[Target(s)].store_id = Val(last.before).store_id
          /\ visits'[Target(s)].visit_date = Val(last.before).visit_date
          /\ visits'[Target(s)].weekday = Val(last.before).weekday
          /\ visits'[Target(s)].buyer = Val(last.before).buyer
          /\ visits'[Target(s)].supplier_id = Val(last.before).supplier_id
          /\ visits'[Target(s)].segment = Val(last.before).segment
          /\ visits'[Target(s)].warranty = Val(last.before).warranty
          /\ visits'[Target(s)].info = Val(last.before).info
          /\ suppliers' = suppliers
     ]_vars

\* reopened after a completion that left its comment: Pendente, the comment of
\* the completion still on it
C4_Witness ==
  /\ last.op = "reabrir"
  /\ last.id \in DOMAIN visits
  /\ ~IsNull(last.before)
  /\ Val(last.before).status = Concluida
  /\ visits[last.id].status = Pendente
  /\ visits[last.id].manager_comment = Some(<<"k">>)
  /\ visits[last.id].buyer = FormDefaults.buyer

\* C5: Concluir pressed with no comment typed leaves the visit's
\* manager_comment as it was.
C5_NoCommentKeepsComment ==
  [][\A s \in Sessions, c \in {<<>>, <<" ">>} :
       (Concluir(s, c) /\ Target(s) \in DOMAIN visits)
       => visits'[Target(s)].manager_comment = visits[Target(s)].manager_comment
     ]_vars

\* C6: no Concluir changes completed_by or completed_at of a visit that is
\* Concluida when the write is made.
C6_CompleteOnlyPending ==
  [][\A s \in Sessions, c \in CommentInputs :
       ( /\ Concluir(s, c)
         /\ Target(s) \in DOMAIN visits
         /\ visits[Target(s)].status = Concluida )
       => /\ visits'[Target(s)].completed_by = visits[Target(s)].completed_by
          /\ visits'[Target(s)].completed_at = visits[Target(s)].completed_at
     ]_vars

\* C7: Reabrir on a Concluida visit makes it Pendente with completed_at and
\* completed_by null and changes no other column of it, manager_comment
\* included.
C7_ReopenFrame ==
  [][\A s \in Sessions :
       ( /\ Reabrir(s)
         /\ Target(s) \in DOMAIN visits
         /\ visits[Target(s)].status = Concluida )
       => /\ Target(s) \in DOMAIN visits'
          /\ visits'[Target(s)] = [visits[Target(s)] EXCEPT !.status = Pendente,
                                                            !.completed_at = NULL,
                                                            !.completed_by = NULL]
     ]_vars

\* a visit completed with a comment, reopened, the comment kept
C7_Witness ==
  /\ last.op = "reabrir"
  /\ last.id \in DOMAIN visits
  /\ ~IsNull(last.before)
  /\ Val(last.before).status = Concluida
  /\ ~IsNull(Val(last.before).manager_comment)
  /\ visits[last.id].manager_comment = Val(last.before).manager_comment
  /\ IsNull(visits[last.id].completed_by)

\* C8: Salvar changes buyer, supplier, segment, warranty and info of the
\* visit it names and nothing else: the visit's other columns, and every
\* other visit, are as before.
C8_UpdateFrame ==
  [][\A s \in Sessions, d \in Descs, f \in UpdateSupplierInputs :
       ( /\ DashboardSalvar(s, d.buyer, f, d.segment, d.warranty, d.info)
         /\ Target(s) \in DOMAIN visits )
       => /\ DOMAIN visits' = DOMAIN visits
          /\ \A i \in DOMAIN visits \ {Target(s)} : visits'[i] = visits[i]
          /\ visits'[Target(s)] =
               [visits[Target(s)] EXCEPT !.buyer = visits'[Target(s)].buyer,
                                         !.supplier_id = visits'[Target(s)].supplier_id,
                                         !.segment = visits'[Target(s)].segment,
                                         !.warranty = visits'[Target(s)].warranty,
                                         !.info = visits'[Target(s)].info]
     ]_vars

\* one of two visits edited: its buyer and supplier changed, the other visit
\* still as it was scheduled
C8_Witness ==
  /\ last.op = "update"
  /\ last.id \in DOMAIN visits
  /\ Cardinality(DOMAIN visits) = 2
  /\ ~IsNull(last.before)
  /\ visits[last.id].buyer # Val(last.before).buyer
  /\ visits[last.id].supplier_id # Val(last.before).supplier_id
  /\ \A i \in DOMAIN visits \ {last.id} : visits[i].buyer = FormDefaults.buyer

\* C9: Concluir, Reabrir, Salvar and Excluir on a visit id that is not in the
\* table are refused and change neither the visits nor the suppliers table.
C9_MissingIdRefused ==
  [][\A s \in Sessions :
       ( /\ Target(s) \notin DOMAIN visits
         /\ \/ \E c \in CommentInputs : Concluir(s, c)
            \/ Reabrir(s)
            \/ DashboardExcluir(s)
            \/ \E d \in Descs, f \in UpdateSupplierInputs :
                 DashboardSalvar(s, d.buyer, f, d.segment, d.warranty, d.info) )
       => /\ last'.outcome # "ok"
          /\ visits' = visits
          /\ suppliers' = suppliers
     ]_vars

\* C10: the Agendar form submitted with no store or with a blank supplier
\* (empty or only spaces) is refused and adds no visit and no supplier.
C10_BlankScheduleRefused ==
  [][\A s \in Sessions, lojas \in StoreLists, dt \in Dates, f \in SupplierInputs,
        r \in BOOLEAN :
       ( /\ PageAgendarVisita(s, lojas, dt, FormDefaults.buyer, f, FormDefaults.segment,
                              FormDefaults.warranty, FormDefaults.info, r)
         /\ (lojas = <<>> \/ Strip(f) = <<>>) )
       => /\ last'.outcome = "rejected"
          /\ visits' = visits
          /\ suppliers' = suppliers
     ]_vars

\* str.lower(), on the letters the forms' inputs use
Lower(c) == IF c = "A" THEN "a" ELSE c

\* a supplier name with surrounding whitespace removed and in lower case
Normalized(name) == [k \in DOMAIN Strip(name) |-> Lower(Strip(name)[k])]

\* C11: the suppliers table never holds two rows whose names are equal once
\* whitespace around them is removed and letter case is ignored ("A" and " a "
\* resolve to the same supplier id).
C11_NormalizedNamesUnique ==
  \A i, j \in DOMAIN suppliers :
    Normalized(suppliers[i]) = Normalized(suppliers[j]) => i = j

\* C13: Concluir, Reabrir, Salvar and Excluir on one visit leave every other
\* visit in the table exactly as it was, the visits scheduled by the same
\* request for other weeks included.
C13_SiblingsUntouched ==
  [][\A s \in Sessions :
       ( /\ sess[s].pc \in {"loja", "dashboard"}
         /\ sess'[s] = Idle
         /\ \/ \E c \in CommentInputs : Concluir(s, c)
            \/ Reabrir(s)
            \/ DashboardExcluir(s)
            \/ \E d \in Descs, f \in UpdateSupplierInputs :
                 DashboardSalvar(s, d.buyer, f, d.segment, d.warranty, d.info) )
       => \A i \in DOMAIN visits \ {Target(s)} :
            i \in DOMAIN visits' /\ visits'[i] = visits[i]
     ]_vars

\* one of four weekly visits completed: the other three of the same request
\* are still Pendente
C13_Witness ==
  /\ last.op = "concluir"
  /\ Cardinality(DOMAIN visits) = 4
  /\ last.id \in DOMAIN visits
  /\ visits[last.id].status = Concluida
  /\ \A i \in DOMAIN visits \ {last.id} :
       /\ visits[i].created_at = visits[last.id].created_at
       /\ visits[i].status = Pendente
       /\ IsNull(visits[i].completed_by)

\* the rows of a table, as a set
RowsIn(df) == {df[k] : k \in DOMAIN df}

\* the visit passes a query's status and date filters
Passes(i, st, w) ==
  /\ st = <<>> \/ \E k \in DOMAIN st : visits[i].status = st[k]
  /\ w.start <= visits[i].visit_date
  /\ visits[i].visit_date <= w.end

\* the session's step is a run of the dashboard that shows the table of the
\* query q, no day of the week chosen: the table is list_visits' result
Tabulated(s, q) ==
  /\ sess'[s] # sess[s]
  /\ sess'[s].pc = "tabela"
  /\ sess'[s].q = q
  /\ q.dia_semana = "Todos"
  /\ DashboardTabela(s, q.loja_id, q.status, q.start, q.end, q.dia_semana)

\* C14: list_visits called with store S returns exactly the visits of store S
\* that pass the status and date filters, each once, and no visit of another
\* store; called without a store it returns those of every store.
C14_StoreFilter ==
  [][\A s \in Sessions :
       (sess'[s] # sess[s] /\ sess'[s].pc = "tabela" /\ Tabulated(s, sess'[s].q))
       => /\ RowsIn(sess'[s].df) =
               {i \in DOMAIN visits :
                  /\ IsNull(sess'[s].q.loja_id)
                       \/ visits[i].store_id = Val(sess'[s].q.loja_id)
                  /\ Passes(i, sess'[s].q.status, sess'[s].q)}
          /\ Len(sess'[s].df) = Cardinality(RowsIn(sess'[s].df))
     ]_vars

\* the table of store 2 shown while a visit of store 1 passes the same status
\* and date filters: store 2's visit is in it, store 1's is not
C14_Witness ==
  /\ sess["comercial"].pc = "tabela"
  /\ sess["comercial"].q.loja_id = Some(2)
  /\ sess["comercial"].q.dia_semana = "Todos"
  /\ sess["comercial"].df # <<>>
  /\ \A i \in RowsIn(sess["comercial"].df) :
       i \in DOMAIN visits /\ visits[i].store_id = 2
  /\ \E i \in DOMAIN visits :
       /\ visits[i].store_id = 1
       /\ Passes(i, sess["comercial"].q.status, sess["comercial"].q)
       /\ i \notin RowsIn(sess["comercial"].df)

\* C15: the store page only ever holds a visit of the logged-in user's own
\* store, and a Concluir or Reabrir pressed on it changes no visit of another
\* store.
C15_StoreScoped ==
  /\ [](\A s \in Sessions :
          sess[s].pc = "loja"
          => /\ ~IsNull(SessionUser(s).store_id)
             /\ sess[s].id \in DOMAIN visits
             /\ visits[sess[s].id].store_id = Val(SessionUser(s).store_id))
  /\ [][\A s \in Sessions :
          ((\E c \in CommentInputs : LojaConcluir(s, c)) \/ LojaReabrir(s))
          => \A i \in DOMAIN visits :
               visits'[i] # visits[i]
               => visits[i].store_id = Val(SessionUser(s).store_id)
       ]_vars

\* store 1's user completed store 1's visit while store 2 has a pending visit
\* in the same week
C15_Witness ==
  /\ last.op = "concluir"
  /\ last.id \in DOMAIN visits
  /\ visits[last.id].store_id = 1
  /\ visits[last.id].completed_by = Some(SessionUser("loja").id)
  /\ \E i \in DOMAIN visits : visits[i].store_id = 2 /\ visits[i].status = Pendente

\* C16: list_visits called with start A and end B returns only visits with
\* A <= visit_date <= B, a visit dated A or B itself included; with A > B it
\* returns no row, as an empty table.
C16_DateRange ==
  [][\A s \in Sessions :
       (sess'[s] # sess[s] /\ sess'[s].pc = "tabela" /\ Tabulated(s, sess'[s].q))
       => /\ \A i \in RowsIn(sess'[s].df) :
               /\ sess'[s].q.start <= visits[i].visit_date
               /\ visits[i].visit_date <= sess'[s].q.end
          /\ \A i \in DOMAIN visits :
               ( /\ visits[i].visit_date \in {sess'[s].q.start, sess'[s].q.end}
                 /\ sess'[s].q.start <= sess'[s].q.end
                 /\ IsNull(sess'[s].q.loja_id)
                      \/ visits[i].store_id = Val(sess'[s].q.loja_id)
                 /\ sess'[s].q.status = <<>>
                      \/ \E k \in DOMAIN sess'[s].q.status :
                           visits[i].status = sess'[s].q.status[k] )
               => i \in RowsIn(sess'[s].df)
          /\ sess'[s].q.start > sess'[s].q.end => sess'[s].df = <<>>
     ]_vars

\* a range that starts and ends on 2024-01-10: the visit of that day is
\* listed, the one of 2024-01-08 is not
C16_Witness ==
  /\ sess["comercial"].pc = "tabela"
  /\ sess["comercial"].q.start = BaseDate + 2
  /\ sess["comercial"].q.end = BaseDate + 2
  /\ sess["comercial"].q.dia_semana = "Todos"
  /\ sess["comercial"].df # <<>>
  /\ \A i \in RowsIn(sess["comercial"].df) :
       i \in DOMAIN visits /\ visits[i].visit_date = BaseDate + 2
  /\ \E i \in DOMAIN visits : visits[i].visit_date = BaseDate

\* C17: the rows list_visits returns are sorted by visit_date ascending and,
\* among rows of one visit_date, by id ascending.
C17_SortedAscending ==
  [][\A s \in Sessions :
       (sess'[s] # sess[s] /\ sess'[s].pc = "tabela" /\ Tabulated(s, sess'[s].q))
       => \A a, b \in DOMAIN sess'[s].df :
            a < b =>
              \/ visits[sess'[s].df[a]].visit_date < visits[sess'[s].df[b]].visit_date
              \/ /\ visits[sess'[s].df[a]].visit_date = visits[sess'[s].df[b]].visit_date
                 /\ sess'[s].df[a] < sess'[s].df[b]
     ]_vars

\* C18: every visit's status is Pendente, Concluida or No-show; marking a
\* Pendente visit No-show makes it No-show with completed_at and completed_by
\* set; a No-show visit reopened is Pendente, and completed is Concluida.
C18_NoShow ==
  /\ [](\A i \in DOMAIN visits :
          visits[i].status \in {Pendente, Concluida, NaoCompareceu})
  /\ [][\A s \in Sessions, c \in CommentInputs :
          ( /\ LojaNaoCompareceu(s, c)
            /\ Target(s) \in DOMAIN visits
            /\ visits[Target(s)].status = Pendente )
          => /\ visits'[Target(s)].status = NaoCompareceu
             /\ ~IsNull(visits'[Target(s)].completed_at)
             /\ ~IsNull(visits'[Target(s)].completed_by)
       ]_vars
  /\ [][\A s \in Sessions :
          ( /\ Target(s) \in DOMAIN visits
            /\ visits[Target(s)].status = NaoCompareceu )
          => /\ Reabrir(s) => visits'[Target(s)].status = Pendente
             /\ (\E c \in CommentInputs : Concluir(s, c))
                  => visits'[Target(s)].status = Concluida
       ]_vars

\* the sessions in a call of create_visit or update_visit that ensure_supplier
\* has returned to
Callers == {s \in Sessions : sess[s].pc \in {"create_visit", "update_visit"}}

\* C12: whatever the interleaving of the calls that upsert one supplier name,
\* the suppliers table holds at most one row of a name, no pending insert
\* collides with a committed row of its name (no caller fails on the UNIQUE
\* constraint), and every caller ensure_supplier has returned to holds the id
\* of the row of its name.
C12_ConcurrentUpsert ==
  /\ \A i, j \in DOMAIN suppliers : suppliers[i] = suppliers[j] => i = j
  /\ \A s \in Sessions :
       (sess[s].pc = "ensure_supplier" /\ sess[s].inserted)
       => ~HasSupplier(sess[s].name)
  /\ \A s \in Callers :
       /\ sess[s].supplier_id \in DOMAIN suppliers
       /\ suppliers[sess[s].supplier_id] = sess[s].name

\* create_visit and update_visit, called concurrently with one name new to the
\* table: both callers hold the id of the single row
C12_Witness ==
  /\ sess["comercial"].pc = "create_visit"
  /\ sess["comercial2"].pc = "update_visit"
  /\ sess["comercial"].name = sess["comercial2"].name
  /\ sess["comercial"].supplier_id = sess["comercial2"].supplier_id
  /\ Cardinality({i \in DOMAIN suppliers : suppliers[i] = sess["comercial"].name}) = 1
  /\ \A i \in DOMAIN visits : visits[i].supplier_id # sess["comercial"].supplier_id

\* the rows a call of create_visit is to store
PlanOf(call) == InsertPlan(call.store_ids, call.visit_date, call.repeat_weekly)

\* C19: the visits table changes by whole calls of create_visit only: a step
\* that adds rows adds all the rows of one call, at that call's commit, and a
\* call that ends on a failed insert leaves the table as it was, with no row
\* of the call in it.  (What a listing reads is the visits table.)
C19_AllOrNothing ==
  [][/\ NewRows # {}
        => \E s \in Sessions :
             /\ sess[s].pc = "create_visit"
             /\ sess'[s] = Idle
             /\ last'.op = "agendar" /\ last'.outcome = "ok"
             /\ Cardinality(NewRows) = Len(PlanOf(sess[s].call))
             /\ \A k \in DOMAIN PlanOf(sess[s].call) :
                  \E i \in NewRows :
                    /\ visits'[i].store_id = PlanOf(sess[s].call)[k].store_id
                    /\ visits'[i].visit_date = PlanOf(sess[s].call)[k].vdate
     /\ \A s \in Sessions :
          (sess[s].pc = "create_visit" /\ sess'[s] = Idle /\ last'.outcome = "error")
          => /\ visits' = visits
             /\ DOMAIN sess[s].rows \cap DOMAIN visits = {}
     ]_vars

\* create_visit([1, 16], ..) ended on the insert for store 16: the id of the
\* insert for store 1 was handed out, and no visit is stored
C19_Witness ==
  /\ last.op = "agendar" /\ last.outcome = "error"
  /\ visitSeq = 2
  /\ visits = <<>>
  /\ \A s \in Sessions : sess[s].pc = "idle"

\* some run of main() has been made to its end
Ran == \E s \in Sessions : sess[s].runs > 0 /\ last.outcome = "ok"

\* C20: no run of init_db and seed_data fails, the stores table never holds a
\* name twice, and once a run has been made to its end the stores table
\* holds each of the 15 names once and the users table the 16 seeded users,
\* each once, the store users tied to their stores.
C20_SeedsOnce ==
  /\ last.outcome # "error"
  /\ \A k \in 1..NumLojas : Cardinality({i \in DOMAIN stores : stores[i] = k}) <= 1
  /\ Ran =>
       /\ Cardinality(DOMAIN stores) = NumLojas
       /\ \A k \in 1..NumLojas : \E i \in DOMAIN stores : stores[i] = k
       /\ Cardinality(DOMAIN users) = NumLojas + 1
       /\ \A e \in 0..NumLojas :
            Cardinality({i \in DOMAIN users : users[i].email = e}) = 1
       /\ \A i \in DOMAIN users :
            users[i].role = "loja"
            => /\ ~IsNull(users[i].store_id)
               /\ Val(users[i].store_id) \in DOMAIN stores
               /\ stores[Val(users[i].store_id)] = users[i].email

====
